---------------------------- MODULE Spec2Model ----------------------------
(***************************************************************************)
(* Boot / soft-reset lifecycle of the rp2 port (src/omv/ports/rp2/main.c). *)
(* main() is modelled statement group by statement group: pc is the        *)
(* position in main(), the other variables are main's locals, the state of *)
(* the collaborators main drives (debug channel, recovery-point stack,     *)
(* USB stack) and per-cycle records of the calls main made.                *)
(***************************************************************************)
EXTENDS Naturals, Integers, Sequences, FiniteSets, TLC

\* ------------------------------------------------------------------ bounds
\* Soft-reset cycles that are told apart (the counter saturates there).
MaxCycles == 2
\* Recovery points that are told apart on the nlr stack (saturating).
MaxNlr == 2
\* Milliseconds that pass between two polls of usbdbg_wait_for_command.
PollMs == 500
\* Runs of main.py that are told apart (saturating).
MaxMainRuns == 2

\* Largest cycle count of a direct rosc_random_u8 call.
MaxSamples == 3
\* rosc_random_u32 calls in a row that are told apart (saturating).
MaxWords == 2

\* -------------------------------------------------------- program constants
\* main.c:261  usbdbg_wait_for_command(1000)
WaitTimeoutMs == 1000
\* main.c:305  #define POLY (0xD5)
POLY == 213
\* main.c:319  rosc_random_u8(32)
SamplesPerByte == 32
\* main.c:318  for (size_t i = 0; i < 4; ++i)
BytesPerWord == 4

VARIABLES
    pc,               \* position in main()
    build,            \* the #if switches of the build (fixed at power-on)
    first_soft_reset, \* main.c:108
    interrupted,      \* main.c:212
    irq_enabled,      \* debug-channel (IDE) interrupt enable
    gate,             \* Debug Channel Gate: Idle, Armed, ScriptQueued, Busy
    nlr_depth,        \* recovery points pushed by main and still registered
    tusb_inited,      \* tusb_inited()
    init_log,         \* subsystems whose init ran and succeeded, this cycle, in order
    init_failed,      \* subsystems whose init failed, this cycle
    deinit_log,       \* subsystems deinitialised, this cycle, in order
    printed,          \* what main printed, this cycle
    visited,          \* lifecycle states entered, this cycle
    host_outcome,     \* outcome of the host script run, this cycle
    irq_before,       \* irq_enabled when the host-script region was entered
    wait_elapsed,     \* ms spent in usbdbg_wait_for_command
    wait_result,      \* its result, this cycle
    main_runs,        \* runs of main.py since power-on
    cycle,            \* completed teardowns since power-on
    left_unready,     \* the REPL loop was left by break with no script ready
                      \* and the test of main.c:243 is still to come
    led,              \* OMV_LED_PIN, driven by __fatal_error
    r,                \* main.c:308  static uint8_t r of rosc_random_u8
    osc,              \* what rosc_hw->randombit delivers (fixed at power-on)
    tick,             \* phase of the alternating stub oscillator
    rpc,              \* position in rosc_random_u8 / rosc_random_u32
    caller,           \* who called rosc_random_u8: "ext" or "u32"
    cycles,           \* main.c:307  argument of rosc_random_u8
    bits,             \* the bits sampled so far by the running call
    r_entry,          \* r when the running (or last) call was entered
    ret,              \* value returned by the last rosc_random_u8 call
    called,           \* a rosc_random_u8 call has returned since power-on
    prev_bits,        \* the bits sampled by the last call that returned
    value,            \* main.c:317  uint32_t value, as its four bytes, MSB first
    k,                \* main.c:318  loop index of rosc_random_u32
    bytes,            \* the rosc_random_u8 results of the running word, in order
    nwords            \* rosc_random_u32 calls returned in a row (saturating)

vars == <<pc, build, first_soft_reset, interrupted, irq_enabled, gate, nlr_depth,
          tusb_inited, init_log, init_failed, deinit_log, printed, visited,
          host_outcome, irq_before, wait_elapsed, wait_result, main_runs, cycle,
          left_unready, led, r, osc, tick, rpc, caller, cycles, bits, r_entry, ret, called,
          prev_bits, value, k, bytes, nwords>>

localVars == <<first_soft_reset, interrupted>>
gateVars  == <<irq_enabled, gate>>
logVars   == <<init_log, init_failed, deinit_log, printed>>
hostVars  == <<host_outcome, irq_before>>
waitVars  == <<wait_elapsed, wait_result>>
countVars == <<main_runs, cycle>>
rngVars   == <<r, osc, tick, rpc, caller, cycles, bits, r_entry, ret, called,
               prev_bits, value, k, bytes, nwords>>

mainVars  == <<pc, build, localVars, gateVars, nlr_depth, tusb_inited, logVars,
               visited, hostVars, waitVars, countVars, left_unready, led>>

Min(a, b) == IF a < b THEN a ELSE b

\* The preprocessor switches main.c tests.
Builds ==
    [bluetooth : BOOLEAN, network : BOOLEAN, audio : BOOLEAN,
     sensor : BOOLEAN, vfs : BOOLEAN]

\* ------------------------------------------------------------ lifecycle
\* The lifecycle state a position of main() belongs to.
Phase(l) ==
    CASE l = "boot" -> "Boot"
      [] l \in {"soft_reset", "init_subsystems", "sensor_init", "mount_fs",
                "tusb_init"} -> "Init"
      [] l \in {"boot_py", "main_check"} -> "RunBootScript"
      [] l = "main_py" -> "RunMainScript"
      [] l \in {"repl_check", "repl_push", "repl_irq_on", "repl_exec",
                "script_check"} -> "Interactive"
      [] l \in {"host_push", "host_irq_on", "host_take", "host_run",
                "host_irq_off", "host_except", "busy_check", "wait_irq_on",
                "wait", "wait_irq_off"} -> "RunHostScript"
      [] l \in {"soft_reset_exit", "soft_reset_end"} -> "Teardown"
      [] l \in {"fatal", "jump_fail", "panic"} -> "Fatal"

Goto(l) ==
    /\ pc' = l
    /\ visited' = visited \cup {Phase(l)}

\* --------------------------------------------------- Debug Channel Gate
usbdbg_script_ready == gate = "ScriptQueued"

usbdbg_is_busy == gate = "Busy"

\* usbdbg_set_irq_enabled(b)
usbdbg_set_irq_enabled(b) ==
    /\ irq_enabled' = b
    /\ gate' = CASE gate = "Idle" /\ b -> "Armed"
                 [] gate = "Armed" /\ ~b -> "Idle"
                 [] OTHER -> gate

\* nlr_push returning 0 registers a recovery point; nlr_pop, or the jump of a
\* fault, removes the top one.
nlr_push == nlr_depth' = Min(nlr_depth + 1, MaxNlr)

nlr_pop == nlr_depth' = IF nlr_depth > 0 THEN nlr_depth - 1 ELSE 0

\* main.c:308  static uint8_t r is zero at power-on; no call is running.
RngPowerOn ==
    /\ r = 0
    /\ tick = 0
    /\ rpc = "idle"
    /\ caller = "ext"
    /\ cycles = 0
    /\ bits = <<>>
    /\ r_entry = 0
    /\ ret = 0
    /\ called = FALSE
    /\ prev_bits = <<>>
    /\ value = <<0, 0, 0, 0>>
    /\ k = 0
    /\ bytes = <<>>
    /\ nwords = 0

Init ==
    /\ pc = "boot"
    /\ build \in Builds
    /\ first_soft_reset = TRUE
    /\ interrupted = FALSE
    /\ irq_enabled = FALSE
    /\ gate = "Idle"
    /\ nlr_depth = 0
    /\ tusb_inited = FALSE
    /\ init_log = <<>>
    /\ init_failed = {}
    /\ deinit_log = <<>>
    /\ printed = {}
    /\ visited = {"Boot"}
    /\ host_outcome = "none"
    /\ irq_before = FALSE
    /\ wait_elapsed = 0
    /\ wait_result = "none"
    /\ main_runs = 0
    /\ cycle = 0
    /\ left_unready = FALSE
    /\ led = FALSE
    /\ RngPowerOn
    /\ osc = "free"

\* main.c:107-145  power-on set-up: UART/stdio, RTC, board unique id.
Boot ==
    /\ pc = "boot"
    /\ Goto("soft_reset")
    /\ UNCHANGED <<rngVars, led, left_unready, build, localVars, gateVars, nlr_depth, tusb_inited, logVars,
                   hostVars, waitVars, countVars>>

\* main.c:147-153  soft_reset: stack extents, GC heap, mp_init.
SoftReset ==
    /\ pc = "soft_reset"
    /\ pc' = "init_subsystems"
    /\ visited' = {"Init"}
    /\ init_log' = <<"gc", "runtime">>
    /\ init_failed' = {}
    /\ deinit_log' = <<>>
    /\ printed' = {}
    /\ host_outcome' = "none"
    /\ wait_result' = "none"
    /\ wait_elapsed' = 0
    /\ irq_before' = FALSE
    /\ interrupted' = FALSE   \* main.c:212 declares it anew in every cycle
    /\ UNCHANGED <<rngVars, led, left_unready, build, first_soft_reset, gateVars,
                   nlr_depth, tusb_inited, countVars>>


\* --------------------------------------------------------------- bring-up
SeqIf(c, s) == IF c THEN s ELSE <<>>

\* main.c:155-175  the unconditional sub-system inits, in call order:
\* readline_init0, machine_pin_init, rp2_pio_init, rp2_dma_init,
\* machine_i2s_init0, [mp_bluetooth_hci_init], [mod_network_init], pendsv_init,
\* usbdbg_init, fb_alloc_init0, framebuffer_init0, py_fir_init0.
InitCalls ==
    <<"readline", "pin", "pio", "dma", "i2s">>
    \o SeqIf(build.bluetooth, <<"bluetooth">>)
    \o SeqIf(build.network, <<"network">>)
    \o <<"pendsv", "usbdbg", "fb_alloc", "framebuffer", "fir">>

\* usbdbg_init(): a fresh session has no script queued and no command in flight.
usbdbg_init ==
    gate' = IF irq_enabled THEN "Armed" ELSE "Idle"

InitSubsystems ==
    /\ pc = "init_subsystems"
    /\ init_log' = init_log \o InitCalls
    /\ usbdbg_init
    /\ Goto("sensor_init")
    /\ UNCHANGED <<rngVars, led, left_unready, build, localVars, irq_enabled, nlr_depth, tusb_inited,
                   init_failed, deinit_log, printed, hostVars, waitVars, countVars>>

\* Faulty variant: the first init failure ends bring-up.
AfterSensorInit_Abort(ok) == IF ok THEN "mount_fs" ELSE "boot_py"

\* Faulty variant: an init failure is fatal.
AfterSensorInit_Fatal(ok) == IF ok THEN "mount_fs" ELSE "fatal"

\* Where main goes after sensor_init returned (ok: it returned 0): the next
\* statement, whatever the result.
AfterSensorInit(ok) == "mount_fs"

\* main.c:177-181  sensor_init(); a failure is printed and nothing else.
SensorInit ==
    /\ pc = "sensor_init"
    /\ IF build.sensor
       THEN \E ok \in BOOLEAN :
              /\ IF ok
                 THEN /\ init_log' = Append(init_log, "sensor")
                      /\ UNCHANGED <<init_failed, printed>>
                 ELSE /\ init_failed' = init_failed \cup {"sensor"}
                      /\ printed' = printed \cup {"sensor init failed!"}
                      /\ UNCHANGED init_log
              /\ Goto(AfterSensorInit(ok))
       ELSE /\ UNCHANGED <<init_log, init_failed, printed>>
            /\ Goto(AfterSensorInit(TRUE))
    /\ UNCHANGED <<rngVars, led, left_unready, build, localVars, gateVars, nlr_depth, tusb_inited, deinit_log,
                   hostVars, waitVars, countVars>>

\* main.c:183-199  mount the filesystem (creating a fresh one when there is
\* none), or run the frozen _boot.py; then touch .openmv_disk.  No result is
\* tested by main.
MountFs ==
    /\ pc = "mount_fs"
    /\ IF build.vfs
       THEN \E ok \in BOOLEAN :
              IF ok
              THEN /\ init_log' = Append(init_log, "vfs")
                   /\ UNCHANGED init_failed
              ELSE /\ init_failed' = init_failed \cup {"vfs"}
                   /\ UNCHANGED init_log
       ELSE /\ init_log' = Append(init_log, "frozen_boot")
            /\ UNCHANGED init_failed
    /\ Goto("tusb_init")
    /\ UNCHANGED <<rngVars, led, left_unready, build, localVars, gateVars, nlr_depth, tusb_inited, deinit_log,
                   printed, hostVars, waitVars, countVars>>

\* Faulty variant: the tusb_inited() test is missing.
TusbInit_EveryCycle ==
    /\ pc = "tusb_init"
    /\ tusb_inited' = TRUE
    /\ init_log' = Append(init_log, "tusb")
    /\ usbdbg_set_irq_enabled(FALSE)
    /\ Goto("boot_py")
    /\ UNCHANGED <<rngVars, led, left_unready, build, localVars, nlr_depth,
                   init_failed, deinit_log, printed, hostVars, waitVars, countVars>>

\* main.c:201-209  TinyUSB is initialised, and the debugger IRQ handler
\* installed (with the USB interrupt disabled), only when !tusb_inited().
TusbInit ==
    /\ pc = "tusb_init"
    /\ IF ~tusb_inited
       THEN /\ tusb_inited' = TRUE
            /\ init_log' = Append(init_log, "tusb")
            /\ usbdbg_set_irq_enabled(FALSE)
       ELSE UNCHANGED <<tusb_inited, init_log, gateVars>>
    /\ Goto("boot_py")
    /\ UNCHANGED <<rngVars, led, left_unready, build, localVars, nlr_depth, init_failed, deinit_log, printed,
                   hostVars, waitVars, countVars>>

\* ------------------------------------------------------- boot.py, main.py
\* main.c:212  interrupted = mp_exec_bootscript("boot.py", true, false)
RunBootPy ==
    /\ pc = "boot_py"
    /\ \E res \in BOOLEAN : interrupted' = res
    /\ Goto("main_check")
    /\ UNCHANGED <<rngVars, led, left_unready, build, first_soft_reset, gateVars, nlr_depth, tusb_inited,
                   logVars, hostVars, waitVars, countVars>>

\* Faulty variant: the first_soft_reset test is missing.
RunsMain_EveryCycle(exists) == ~interrupted /\ exists

\* main.c:215  first_soft_reset && !interrupted && mp_vfs_import_stat("main.py")
RunsMain(exists) == first_soft_reset /\ ~interrupted /\ exists

MainCheck ==
    /\ pc = "main_check"
    /\ \E exists \in BOOLEAN :
         IF RunsMain(exists) THEN Goto("main_py") ELSE Goto("repl_check")
    /\ UNCHANGED <<rngVars, led, left_unready, build, localVars, gateVars, nlr_depth, tusb_inited, logVars,
                   hostVars, waitVars, countVars>>

\* Faulty variant: the goto is missing and main falls into the REPL loop.
AfterMainPy_FallThrough == "repl_check"

\* Where main goes after main.py: goto soft_reset_exit.
AfterMainPy == "soft_reset_exit"

\* main.c:216-217  mp_exec_bootscript("main.py", true, false); goto soft_reset_exit
RunMainPy ==
    /\ pc = "main_py"
    /\ main_runs' = Min(main_runs + 1, MaxMainRuns)
    /\ Goto(AfterMainPy)
    /\ UNCHANGED <<rngVars, led, left_unready, build, localVars, gateVars, nlr_depth, tusb_inited, logVars,
                   hostVars, waitVars, cycle>>

\* ------------------------------------------------------------ REPL loop
\* main.c:221  while (!usbdbg_script_ready())
ReplCheck ==
    /\ pc = "repl_check"
    /\ IF ~usbdbg_script_ready THEN Goto("repl_push") ELSE Goto("script_check")
    /\ UNCHANGED <<rngVars, led, left_unready, build, localVars, gateVars, nlr_depth, tusb_inited, logVars,
                   hostVars, waitVars, countVars>>

\* main.c:222-224  nlr_push(&nlr) == 0
ReplPush ==
    /\ pc = "repl_push"
    /\ nlr_push
    /\ Goto("repl_irq_on")
    /\ UNCHANGED <<rngVars, led, left_unready, build, localVars, gateVars, tusb_inited, logVars, hostVars,
                   waitVars, countVars>>

\* main.c:225-226  usbdbg_set_irq_enabled(true)
ReplIrqOn ==
    /\ pc = "repl_irq_on"
    /\ usbdbg_set_irq_enabled(TRUE)
    /\ Goto("repl_exec")
    /\ UNCHANGED <<rngVars, led, left_unready, build, localVars, nlr_depth, tusb_inited, logVars, hostVars,
                   waitVars, countVars>>

\* Faulty variant: a fault caught in a REPL iteration ends the cycle.
AfterReplFault_Exit == "soft_reset_exit"

\* main.c:224, 241  where main goes when an exception of the REPL reached the
\* recovery point: nlr_push returns non-zero, the if body is skipped and the
\* while condition is evaluated again.
AfterReplFault == "repl_check"

\* main.c:228-240  pyexec_raw_repl() / pyexec_friendly_repl():
\*   "zero"    it returned 0: nlr_pop, next iteration;
\*   "nonzero" it returned non-zero: break (the recovery point is not popped);
\*   "fault"   an exception reached the recovery point: nlr_push returns
\*             non-zero, the body is skipped, next iteration.
ReplExec ==
    /\ pc = "repl_exec"
    /\ \E out \in {"zero", "nonzero", "fault"} :
         CASE out = "zero" -> nlr_pop /\ Goto("repl_check")
           [] out = "nonzero" -> UNCHANGED nlr_depth /\ Goto("script_check")
           [] out = "fault" -> nlr_pop /\ Goto(AfterReplFault)
    /\ left_unready' = (pc' = "script_check" /\ ~usbdbg_script_ready)
    /\ UNCHANGED <<rngVars, led, build, localVars, gateVars, tusb_inited, logVars, hostVars,
                   waitVars, countVars>>

\* ------------------------------------------------------------ host script
\* Faulty variant: the host-script block is entered without the test.
ScriptCheck_Always ==
    /\ pc = "script_check"
    /\ Goto("host_push")
    /\ left_unready' = FALSE
    /\ UNCHANGED <<rngVars, led, build, localVars, gateVars, nlr_depth,
                   tusb_inited, logVars, hostVars, waitVars, countVars>>

\* main.c:243  if (usbdbg_script_ready())
ScriptCheck ==
    /\ pc = "script_check"
    /\ IF usbdbg_script_ready THEN Goto("host_push") ELSE Goto("soft_reset_exit")
    /\ left_unready' = FALSE
    /\ UNCHANGED <<rngVars, led, build, localVars, gateVars, nlr_depth, tusb_inited, logVars,
                   hostVars, waitVars, countVars>>

\* main.c:244-245  nlr_push(&nlr) == 0
HostPush ==
    /\ pc = "host_push"
    /\ nlr_push
    /\ irq_before' = irq_enabled
    /\ Goto("host_irq_on")
    /\ UNCHANGED <<rngVars, led, left_unready, build, localVars, gateVars, tusb_inited, logVars, host_outcome,
                   waitVars, countVars>>

\* Faulty variant: the interrupt is disabled, not enabled, before the run.
HostIrqOn_Disable ==
    /\ pc = "host_irq_on"
    /\ usbdbg_set_irq_enabled(FALSE)
    /\ Goto("host_take")
    /\ UNCHANGED <<rngVars, led, left_unready, build, localVars, nlr_depth, tusb_inited, logVars, hostVars,
                   waitVars, countVars>>

\* main.c:246-247  "Enable IDE interrupt": usbdbg_set_irq_enabled(true)
HostIrqOn ==
    /\ pc = "host_irq_on"
    /\ usbdbg_set_irq_enabled(TRUE)
    /\ Goto("host_take")
    /\ UNCHANGED <<rngVars, led, left_unready, build, localVars, nlr_depth, tusb_inited, logVars, hostVars,
                   waitVars, countVars>>

\* usbdbg_get_script(): the queued script is handed over, ScriptQueued -> Busy.
usbdbg_get_script ==
    gate' = IF gate = "ScriptQueued" THEN "Busy" ELSE gate

\* main.c:249  the argument of pyexec_str: usbdbg_get_script()
HostTake ==
    /\ pc = "host_take"
    /\ usbdbg_get_script
    /\ Goto("host_run")
    /\ UNCHANGED <<rngVars, led, left_unready, build, localVars, irq_enabled, nlr_depth, tusb_inited, logVars,
                   hostVars, waitVars, countVars>>

\* Where main goes when the host script's exception reached the recovery point:
\* the else branch of main.c:253.
AfterHostFault == "host_except"

\* main.c:248-249  pyexec_str(script, true):
\*   "completed", "early_exit"  pyexec_str returned;
\*   "fault"  an exception reached the recovery point of main.c:245: the
\*            recovery point is consumed and the else branch runs.
HostRun ==
    /\ pc = "host_run"
    /\ \E out \in {"completed", "early_exit", "fault"} :
         /\ host_outcome' = out
         /\ IF out = "fault"
            THEN nlr_pop /\ Goto(AfterHostFault)
            ELSE UNCHANGED nlr_depth /\ Goto("host_irq_off")
    /\ UNCHANGED <<rngVars, led, left_unready, build, localVars, gateVars, tusb_inited, logVars, irq_before,
                   waitVars, countVars>>

\* Faulty variant: after the host script main goes back to the REPL loop.
HostIrqOff_Repl ==
    /\ pc = "host_irq_off"
    /\ usbdbg_set_irq_enabled(FALSE)
    /\ nlr_pop
    /\ Goto("repl_check")
    /\ UNCHANGED <<rngVars, led, left_unready, build, localVars, tusb_inited, logVars,
                   hostVars, waitVars, countVars>>

\* main.c:250-252  "Disable IDE interrupts": usbdbg_set_irq_enabled(false); nlr_pop()
HostIrqOff ==
    /\ pc = "host_irq_off"
    /\ usbdbg_set_irq_enabled(FALSE)
    /\ nlr_pop
    /\ Goto("busy_check")
    /\ UNCHANGED <<rngVars, led, left_unready, build, localVars, tusb_inited, logVars, hostVars, waitVars,
                   countVars>>

\* Faulty variant: after a fault main goes back to the REPL loop.
AfterHostExcept_Interactive == "repl_check"

\* Where main goes after the else branch of main.c:253-255.
AfterHostExcept == "busy_check"

\* main.c:253-255  else: mp_obj_print_exception(...)
HostExcept ==
    /\ pc = "host_except"
    /\ printed' = printed \cup {"exception"}
    /\ Goto(AfterHostExcept)
    /\ UNCHANGED <<rngVars, led, left_unready, build, localVars, gateVars, nlr_depth, tusb_inited, init_log,
                   init_failed, deinit_log, hostVars, waitVars, countVars>>

\* ---------------------------------------------------------- wait for idle
\* main.c:257  if (usbdbg_is_busy() && nlr_push(&nlr) == 0)
BusyCheck ==
    /\ pc = "busy_check"
    /\ IF usbdbg_is_busy
       THEN nlr_push /\ Goto("wait_irq_on")
       ELSE UNCHANGED nlr_depth /\ Goto("soft_reset_exit")
    /\ UNCHANGED <<rngVars, led, left_unready, build, localVars, gateVars, tusb_inited, logVars, hostVars,
                   waitVars, countVars>>

\* main.c:258-259  usbdbg_set_irq_enabled(true)
WaitIrqOn ==
    /\ pc = "wait_irq_on"
    /\ usbdbg_set_irq_enabled(TRUE)
    /\ wait_elapsed' = 0
    /\ wait_result' = "none"
    /\ Goto("wait")
    /\ UNCHANGED <<rngVars, led, left_unready, build, localVars, nlr_depth, tusb_inited, logVars, hostVars,
                   countVars>>

\* main.c:261  the timeout main passes to usbdbg_wait_for_command.
WaitTimeout == WaitTimeoutMs

\* usbdbg_wait_for_command(timeout): one poll of is_busy().  Idle: success;
\* still busy when the window is over: Timeout; otherwise poll again later.
WaitPoll ==
    /\ pc = "wait"
    /\ IF ~usbdbg_is_busy
       THEN /\ wait_result' = "ok"
            /\ UNCHANGED wait_elapsed
            /\ Goto("wait_irq_off")
       ELSE IF wait_elapsed >= WaitTimeout
            THEN /\ wait_result' = "timeout"
                 /\ UNCHANGED wait_elapsed
                 /\ Goto("wait_irq_off")
            ELSE /\ wait_elapsed' = wait_elapsed + PollMs
                 /\ UNCHANGED <<wait_result, pc, visited>>
    /\ UNCHANGED <<rngVars, led, left_unready, build, localVars, gateVars, nlr_depth, tusb_inited, logVars,
                   hostVars, countVars>>

\* main.c:257  an exception raised while waiting reaches the recovery point
\* pushed in the condition: nlr_push returns non-zero, the condition is false
\* and the block (with its disable) is skipped.
WaitFault ==
    /\ pc = "wait"
    /\ nlr_pop
    /\ wait_result' = "fault"
    /\ Goto("soft_reset_exit")
    /\ UNCHANGED <<rngVars, led, left_unready, build, localVars, gateVars, tusb_inited, logVars, hostVars,
                   wait_elapsed, countVars>>

\* Faulty variant: after the wait main restarts the cycle without Teardown.
AfterWait_SoftReset == "soft_reset"

\* Faulty variant: main tests usbdbg_is_busy() again after the wait (a while, not an if).
AfterWait_Recheck == "busy_check"

\* Where main goes after the wait block: falls through to soft_reset_exit.
AfterWait == "soft_reset_exit"

\* main.c:262-264  usbdbg_set_irq_enabled(false); nlr_pop()
WaitIrqOff ==
    /\ pc = "wait_irq_off"
    /\ usbdbg_set_irq_enabled(FALSE)
    /\ nlr_pop
    /\ Goto(AfterWait)
    /\ UNCHANGED <<rngVars, led, left_unready, build, localVars, tusb_inited, logVars, hostVars, waitVars,
                   countVars>>

\* --------------------------------------------------------------- teardown
\* Faulty variant: the pin subsystem is deinitialised first.
DeinitCalls_PinFirst ==
    <<"pin">>
    \o SeqIf(build.audio, <<"audio">>)
    \o SeqIf(build.bluetooth, <<"bluetooth">>)
    \o SeqIf(build.network, <<"network">>)
    \o <<"pio", "dma", "pwm", "gc", "runtime">>

\* Faulty variant: Teardown deinitialises the sensor too.
DeinitCalls_Sensor ==
    SeqIf(build.audio, <<"audio">>)
    \o SeqIf(build.bluetooth, <<"bluetooth">>)
    \o SeqIf(build.network, <<"network">>)
    \o SeqIf(build.sensor, <<"sensor">>)
    \o <<"pio", "dma", "pwm", "pin", "gc", "runtime">>

\* main.c:268-284  the deinit calls, in call order: [py_audio_deinit],
\* [mp_bluetooth_deinit], [mod_network_deinit], rp2_pio_deinit, rp2_dma_deinit,
\* machine_pwm_deinit_all, machine_pin_deinit, gc_sweep_all, mp_deinit.
DeinitCalls ==
    SeqIf(build.audio, <<"audio">>)
    \o SeqIf(build.bluetooth, <<"bluetooth">>)
    \o SeqIf(build.network, <<"network">>)
    \o <<"pio", "dma", "pwm", "pin", "gc", "runtime">>

SoftResetExit ==
    /\ pc = "soft_reset_exit"
    /\ printed' = printed \cup {"MPY: soft reboot"}
    /\ deinit_log' = deinit_log \o DeinitCalls
    /\ Goto("soft_reset_end")
    /\ UNCHANGED <<rngVars, led, left_unready, build, localVars, gateVars, nlr_depth, tusb_inited, init_log,
                   init_failed, hostVars, waitVars, countVars>>

\* Faulty variant: first_soft_reset is not cleared before the goto.
SoftResetEnd_KeepFirst ==
    /\ pc = "soft_reset_end"
    /\ cycle' = Min(cycle + 1, MaxCycles)
    /\ Goto("soft_reset")
    /\ UNCHANGED <<rngVars, led, left_unready, build, localVars, gateVars, nlr_depth,
                   tusb_inited, logVars, hostVars, waitVars, main_runs>>

\* main.c:285-286  first_soft_reset = false; goto soft_reset
SoftResetEnd ==
    /\ pc = "soft_reset_end"
    /\ first_soft_reset' = FALSE
    /\ cycle' = Min(cycle + 1, MaxCycles)
    /\ Goto("soft_reset")
    /\ UNCHANGED <<rngVars, led, left_unready, build, interrupted, gateVars, nlr_depth, tusb_inited, logVars,
                   hostVars, waitVars, main_runs>>

\* ------------------------------------------- debug channel, interrupt side
\* An inbound host message, delivered in interrupt context: with the interrupt
\* enabled and the Gate Armed, a script is queued.
HostMessage ==
    /\ irq_enabled
    /\ gate = "Armed"
    /\ gate' = "ScriptQueued"
    /\ UNCHANGED <<rngVars, led, left_unready, pc, build, localVars, irq_enabled, nlr_depth, tusb_inited,
                   logVars, visited, hostVars, waitVars, countVars>>

\* The work the host script started completes: Busy -> Armed (Idle with the
\* interrupt disabled).  It cannot complete before the script has run.
GateComplete ==
    /\ gate = "Busy"
    /\ pc # "host_run"
    /\ gate' = IF irq_enabled THEN "Armed" ELSE "Idle"
    /\ UNCHANGED <<rngVars, led, left_unready, pc, build, localVars, irq_enabled, nlr_depth, tusb_inited,
                   logVars, visited, hostVars, waitVars, countVars>>

\* ------------------------------------------------------------------- spec
\* ------------------------------------------------------------ fatal stops
\* main.c:91-93  __fatal_error(), called from outside main.c on an
\* unrecoverable error at any point of the lifecycle: gpio_init(OMV_LED_PIN),
\* gpio_set_dir(OMV_LED_PIN, GPIO_OUT), then the loop of main.c:95-100.
FatalError ==
    /\ Phase(pc) # "Fatal"
    /\ led' = FALSE
    /\ Goto("fatal")
    /\ UNCHANGED <<rngVars, left_unready, build, localVars, gateVars, nlr_depth, tusb_inited,
                   logVars, hostVars, waitVars, countVars>>

\* Faulty variant: the signal loop ends and main starts a new cycle.
FatalBlink_Reset ==
    /\ pc = "fatal"
    /\ led' = ~led
    /\ Goto("soft_reset")
    /\ UNCHANGED <<rngVars, left_unready, build, localVars, gateVars, nlr_depth, tusb_inited,
                   logVars, hostVars, waitVars, countVars>>

\* main.c:95-100  while (true) { gpio_put(LED, 1); sleep_ms(100);
\* gpio_put(LED, 0); sleep_ms(100); }: one gpio_put per step, no exit.
FatalBlink ==
    /\ pc = "fatal"
    /\ led' = ~led
    /\ UNCHANGED <<rngVars, left_unready, pc, build, localVars, gateVars, nlr_depth, tusb_inited,
                   logVars, visited, hostVars, waitVars, countVars>>

\* main.c:290-296  nlr_jump_fail(val), called by the runtime when an exception
\* is raised and no recovery point is registered: prints "FATAL: uncaught
\* exception" and the exception, then for (;;) __breakpoint().
NlrJumpFail ==
    /\ Phase(pc) # "Fatal"
    /\ nlr_depth = 0
    /\ printed' = printed \cup {"FATAL: uncaught exception", "exception"}
    /\ Goto("jump_fail")
    /\ UNCHANGED <<rngVars, led, left_unready, build, localVars, gateVars, nlr_depth, tusb_inited,
                   init_log, init_failed, deinit_log, hostVars, waitVars, countVars>>

\* main.c:298-303  __assert_func (builds without NDEBUG): prints the failed
\* assertion and calls panic("Assertion failed"), which does not return.
AssertFunc ==
    /\ Phase(pc) # "Fatal"
    /\ printed' = printed \cup {"Assertion failed"}
    /\ Goto("panic")
    /\ UNCHANGED <<rngVars, led, left_unready, build, localVars, gateVars, nlr_depth, tusb_inited,
                   init_log, init_failed, deinit_log, hostVars, waitVars, countVars>>

\* --------------------------------------------------------- entropy source
\* The C operators &, | and ^ on non-negative ints, bit by bit.
RECURSIVE BitAnd(_, _)
BitAnd(a, b) ==
    IF a = 0 \/ b = 0 THEN 0
    ELSE (a % 2) * (b % 2) + 2 * BitAnd(a \div 2, b \div 2)

RECURSIVE BitOr(_, _)
BitOr(a, b) ==
    IF a = 0 THEN b
    ELSE IF b = 0 THEN a
    ELSE (IF a % 2 = 1 \/ b % 2 = 1 THEN 1 ELSE 0) + 2 * BitOr(a \div 2, b \div 2)

RECURSIVE BitXor(_, _)
BitXor(a, b) ==
    IF a = 0 THEN b
    ELSE IF b = 0 THEN a
    ELSE ((a + b) % 2) + 2 * BitXor(a \div 2, b \div 2)

\* The oscillators the entropy source is run against: the hardware ring
\* oscillator ("free": any bit at any read) and three deterministic stubs.
OscModes == {"free", "zero", "one", "alt"}

\* main.c:310  what a read of rosc_hw->randombit can deliver.
RandomBits ==
    CASE osc = "zero" -> {0}
      [] osc = "one" -> {1}
      [] osc = "alt" -> {tick}
      [] OTHER -> {0, 1}

\* Faulty variant: the polynomial is never folded in.
rosc_step_NoFeedback(old, bit) == BitOr(old * 2, bit) % 256

\* main.c:310  r = ((r << 1) | rosc_hw->randombit) ^ (r & 0x80 ? POLY : 0):
\* the right-hand side is computed in int, the store to uint8_t r keeps the
\* low 8 bits.
rosc_step(old, bit) ==
    BitXor(BitOr(old * 2, bit), IF BitAnd(old, 128) # 0 THEN POLY ELSE 0) % 256

\* Faulty variant: the accumulator is cleared when a call is entered.
rosc_random_u8_enter_Fresh(n, who) ==
    /\ rpc' = "u8_loop"
    /\ caller' = who
    /\ cycles' = n
    /\ bits' = <<>>
    /\ r' = 0
    /\ r_entry' = 0
    /\ UNCHANGED <<osc, tick, ret, called, prev_bits>>

\* main.c:307-309  entry of rosc_random_u8(cycles): r is static, so the call
\* starts from the value the previous call left; i = 0.
rosc_random_u8_enter(n, who) ==
    /\ rpc' = "u8_loop"
    /\ caller' = who
    /\ cycles' = n
    /\ bits' = <<>>
    /\ r_entry' = r
    /\ UNCHANGED <<r, osc, tick, ret, called, prev_bits>>

\* Faulty variant: the bytes are put together least significant first.
rosc_word_step_LsbFirst(v, b) == <<b, v[1], v[2], v[3]>>

\* main.c:319  value = value << 8 | byte on a uint32_t, byte by byte: the
\* shift drops the top byte and leaves a zero low byte, which is ORed with
\* the new byte.
rosc_word_step(v, b) == <<v[2], v[3], v[4], BitOr(0, b)>>

\* A caller outside main.c calls rosc_random_u8(n) (against the hardware
\* oscillator, with a small cycle count).
RandomU8Call ==
    /\ rpc = "idle"
    /\ osc = "free"
    /\ \E n \in 0..MaxSamples : rosc_random_u8_enter(n, "ext")
    /\ nwords' = 0
    /\ UNCHANGED <<value, k, bytes, mainVars>>

\* main.c:309-311  one iteration of the for loop (i is Len(bits)).
RandomU8Sample ==
    /\ rpc = "u8_loop"
    /\ Len(bits) < cycles
    /\ \E bit \in RandomBits :
         /\ r' = rosc_step(r, bit)
         /\ bits' = Append(bits, bit)
    /\ tick' = IF osc = "alt" THEN 1 - tick ELSE tick
    /\ UNCHANGED <<osc, rpc, caller, cycles, r_entry, ret, called, prev_bits,
                   value, k, bytes, nwords, mainVars>>

\* main.c:313  return r; returning into rosc_random_u32 (main.c:319) the
\* byte is shifted into value and the loop index advances.
RandomU8Return ==
    /\ rpc = "u8_loop"
    /\ ~(Len(bits) < cycles)
    /\ ret' = r
    /\ called' = TRUE
    /\ prev_bits' = bits
    /\ IF caller = "u32"
       THEN /\ value' = rosc_word_step(value, r)
            /\ bytes' = Append(bytes, r)
            /\ k' = k + 1
            /\ rpc' = "u32_loop"
       ELSE /\ rpc' = "idle"
            /\ UNCHANGED <<value, bytes, k>>
    /\ UNCHANGED <<r, osc, tick, caller, cycles, bits, r_entry, nwords, mainVars>>

\* main.c:316-317  a caller outside main.c calls rosc_random_u32() (against a
\* stub oscillator): value = 0, i = 0.
RandomU32Call ==
    /\ rpc = "idle"
    /\ osc # "free"
    /\ value' = <<0, 0, 0, 0>>
    /\ k' = 0
    /\ bytes' = <<>>
    /\ rpc' = "u32_loop"
    /\ UNCHANGED <<r, osc, tick, caller, cycles, bits, r_entry, ret, called,
                   prev_bits, nwords, mainVars>>

\* main.c:318-319  i < 4: call rosc_random_u8(32).
RandomU32Loop ==
    /\ rpc = "u32_loop"
    /\ k < BytesPerWord
    /\ rosc_random_u8_enter(SamplesPerByte, "u32")
    /\ UNCHANGED <<value, k, bytes, nwords, mainVars>>

\* main.c:321  return value
RandomU32Return ==
    /\ rpc = "u32_loop"
    /\ ~(k < BytesPerWord)
    /\ rpc' = "idle"
    /\ nwords' = Min(nwords + 1, MaxWords)
    /\ UNCHANGED <<r, osc, tick, caller, cycles, bits, r_entry, ret, called,
                   prev_bits, value, k, bytes, mainVars>>

\* The mainline steps that return by themselves: everything but the runs of
\* script code (boot.py, main.py, a REPL session, the host script), which may
\* run for ever.
Mainline ==
    \/ Boot \/ SoftReset \/ InitSubsystems \/ SensorInit \/ MountFs \/ TusbInit
    \/ MainCheck \/ ReplCheck \/ ReplPush \/ ReplIrqOn \/ ScriptCheck
    \/ HostPush \/ HostIrqOn \/ HostTake \/ HostIrqOff \/ HostExcept
    \/ BusyCheck \/ WaitIrqOn \/ WaitPoll \/ WaitIrqOff
    \/ SoftResetExit \/ SoftResetEnd

Next ==
    \/ Boot
    \/ SoftReset
    \/ InitSubsystems
    \/ SensorInit
    \/ MountFs
    \/ TusbInit
    \/ RunBootPy
    \/ MainCheck
    \/ RunMainPy
    \/ ReplCheck
    \/ ReplPush
    \/ ReplIrqOn
    \/ ReplExec
    \/ ScriptCheck
    \/ HostPush
    \/ HostIrqOn
    \/ HostTake
    \/ HostRun
    \/ HostIrqOff
    \/ HostExcept
    \/ BusyCheck
    \/ WaitIrqOn
    \/ WaitPoll
    \/ WaitFault
    \/ WaitIrqOff
    \/ SoftResetExit
    \/ SoftResetEnd
    \/ HostMessage
    \/ GateComplete

Spec == Init /\ [][Next]_vars

\* main runs on one core with nothing to preempt it for ever: a mainline step
\* that is enabled is eventually taken.
FairSpec == Init /\ [][Next]_vars /\ WF_vars(Mainline)

\* The lifecycle together with the fatal stops, from the build that has every
\* optional subsystem (the stops do not depend on the build).
FullBuild ==
    [audio |-> TRUE, bluetooth |-> TRUE, network |-> TRUE, sensor |-> TRUE,
     vfs |-> TRUE]

TrapInit == Init /\ build = FullBuild

TrapNext ==
    \/ Next
    \/ FatalError
    \/ FatalBlink
    \/ NlrJumpFail
    \/ AssertFunc

\* "main can still reach Init" is a statement about what is possible.  It is
\* checked on the behaviours in which what is possible eventually happens: the
\* mainline is not preempted for ever, a script that is run returns, and a REPL
\* that is entered again and again eventually returns non-zero.  The fatal
\* stops stay possible at every step and are never forced.
TrapSpec ==
    /\ TrapInit
    /\ [][TrapNext]_vars
    /\ WF_vars(Mainline)
    /\ WF_vars(RunBootPy)
    /\ WF_vars(RunMainPy)
    /\ WF_vars(HostRun)
    /\ SF_vars(ReplExec /\ pc' = "script_check")

\* The entropy source on its own, from power-on, against each oscillator.
RngInit ==
    /\ pc = "boot"
    /\ build = FullBuild
    /\ first_soft_reset = TRUE
    /\ interrupted = FALSE
    /\ irq_enabled = FALSE
    /\ gate = "Idle"
    /\ nlr_depth = 0
    /\ tusb_inited = FALSE
    /\ init_log = <<>>
    /\ init_failed = {}
    /\ deinit_log = <<>>
    /\ printed = {}
    /\ visited = {"Boot"}
    /\ host_outcome = "none"
    /\ irq_before = FALSE
    /\ wait_elapsed = 0
    /\ wait_result = "none"
    /\ main_runs = 0
    /\ cycle = 0
    /\ left_unready = FALSE
    /\ led = FALSE
    /\ RngPowerOn
    /\ osc \in OscModes

RngNext ==
    \/ RandomU8Call
    \/ RandomU8Sample
    \/ RandomU8Return
    \/ RandomU32Call
    \/ RandomU32Loop
    \/ RandomU32Return

RngSpec == RngInit /\ [][RngNext]_vars

\* ============================================================== properties
Range(s) == {s[i] : i \in 1..Len(s)}

\* Position of the first occurrence of x in s (x occurs in s).
Pos(s, x) == CHOOSE i \in 1..Len(s) : s[i] = x /\ \A j \in 1..(i - 1) : s[j] # x

Before(s, a, b) == Pos(s, a) < Pos(s, b)

\* Teardown has run its deinit calls (main is at main.c:285).
TeardownDone == pc = "soft_reset_end"

\* The subsystems both initialised and deinitialised in the current cycle.
Paired == Range(init_log) \cap Range(deinit_log)

\* The pairs main deinitialises in the order it initialised them.
SameOrderPairs ==
    {<<"pio", "dma">>, <<"bluetooth", "network">>, <<"gc", "runtime">>}

\* --- C1 ------------------------------------------------------------------
\* C1 (as claimed): when Teardown has run, any two subsystems initialised and
\* deinitialised in the cycle were deinitialised in the reverse of their init
\* order.
C1_StrictReverse ==
    TeardownDone =>
        \A a \in Paired : \A b \in Paired \ {a} :
            Before(init_log, a, b) => Before(deinit_log, b, a)

\* C1 (amended): when Teardown has run, two subsystems initialised and
\* deinitialised in the cycle were deinitialised in the reverse of their init
\* order, except PIO and DMA, bluetooth and network, GC heap and runtime,
\* which were deinitialised in the same order as initialised.
C1_TeardownOrder ==
    TeardownDone =>
        \A a \in Paired : \A b \in Paired \ {a} :
            Before(init_log, a, b) =>
                IF <<a, b>> \in SameOrderPairs
                THEN Before(deinit_log, a, b)
                ELSE Before(deinit_log, b, a)

C1_Witness ==
    /\ TeardownDone
    /\ {"pin", "pio", "dma", "bluetooth", "network"} \subseteq Paired
    /\ Before(init_log, "pin", "pio") /\ Before(deinit_log, "pio", "pin")
    /\ Before(init_log, "pio", "dma") /\ Before(deinit_log, "pio", "dma")

\* --- C2 ------------------------------------------------------------------
\* C2 (as claimed): when Teardown has run, the subsystems deinitialised are
\* exactly those whose init succeeded in the cycle, and as many.
C2_Balanced ==
    TeardownDone =>
        /\ Range(deinit_log) = Range(init_log)
        /\ Len(deinit_log) = Len(init_log)

\* C2 (amended): Teardown runs a fixed list of deinits whatever the init
\* outcomes: of the subsystems initialised in the cycle only GC heap, runtime,
\* pin, PIO, DMA (and bluetooth, network when built in) are deinitialised; PWM
\* (and audio when built in) is deinitialised without an init in main; no
\* subsystem whose init failed is deinitialised, and neither is the sensor when
\* its init succeeded; there are fewer deinit calls than successful inits.
C2_FixedTeardown ==
    TeardownDone =>
        /\ Paired = {"gc", "runtime", "pin", "pio", "dma"}
                    \cup (IF build.bluetooth THEN {"bluetooth"} ELSE {})
                    \cup (IF build.network THEN {"network"} ELSE {})
        /\ Range(deinit_log) \ Range(init_log)
             = {"pwm"} \cup (IF build.audio THEN {"audio"} ELSE {})
        /\ init_failed \cap Range(deinit_log) = {}
        /\ "sensor" \notin Range(deinit_log)
        /\ Len(deinit_log) < Len(init_log)

C2_Witness ==
    /\ TeardownDone
    /\ "sensor" \in init_failed
    /\ "vfs" \in Range(init_log)
    /\ "pwm" \in Range(deinit_log)

\* --- C3 ------------------------------------------------------------------
\* C3 (as claimed), on the fault path: after the guarded run of a host script
\* that faulted, the interrupt-disable cleanup has been executed, as it has
\* after a run that returned: the debug interrupt is disabled.
C3_FaultPathCleanup ==
    (pc = "busy_check" /\ host_outcome # "none") => ~irq_enabled

\* --- C4 ------------------------------------------------------------------
\* C4: main.py is run at most once since power-on, only in the first cycle
\* with first_soft_reset true and interrupted false, and a cycle whose boot
\* script was interrupted never runs it.
C4_MainOnce ==
    /\ main_runs <= 1
    /\ pc = "main_py" => (cycle = 0 /\ first_soft_reset /\ ~interrupted)
    /\ interrupted => "RunMainScript" \notin visited
    /\ cycle >= 1 => Phase(pc) # "RunMainScript"

C4_Witness ==
    /\ cycle = MaxCycles
    /\ pc = "repl_check"
    /\ ~interrupted
    /\ main_runs = 1

\* --- C5 ------------------------------------------------------------------
\* C5 (as claimed): after a host script faulted, no Teardown and no subsystem
\* deinit happens in the cycle.
C5_FaultNoTeardown ==
    (host_outcome = "fault" /\ pc # "soft_reset") =>
        /\ Phase(pc) # "Teardown"
        /\ deinit_log = <<>>

\* C5 (amended): when a host script faults the exception is printed and the
\* orchestrator does not return to Interactive: like after a completed script
\* it goes on, through the busy check and the bounded wait, to Teardown, and
\* the subsystems are deinitialised in that cycle.
C5_FaultThenTeardown ==
    /\ [](host_outcome = "fault" =>
            /\ Phase(pc) \in {"RunHostScript", "Teardown", "Init"}
            /\ (pc # "host_except" => "exception" \in printed))
    /\ (pc = "host_except") ~> (TeardownDone /\ deinit_log # <<>>)

C5_Witness ==
    /\ host_outcome = "fault"
    /\ TeardownDone
    /\ "exception" \in printed
    /\ "pin" \in Range(deinit_log)

\* --- C6 ------------------------------------------------------------------
\* C6 (as claimed): the debug interrupt is disabled while the mainline takes
\* the script from the Gate and while it runs it.
C6_IrqDisabledDuringRun ==
    pc \in {"host_take", "host_run"} => ~irq_enabled

\* C6 (amended): the debug interrupt is enabled before the script is taken
\* from the Gate and stays enabled for the whole guarded execution; it is
\* disabled only afterwards, when pyexec_str has returned.
C6_IrqEnabledDuringRun ==
    /\ pc \in {"host_take", "host_run", "host_irq_off"} => irq_enabled
    /\ (pc = "busy_check" /\ host_outcome \in {"completed", "early_exit"})
          => ~irq_enabled

C6_Witness ==
    /\ pc = "host_run"
    /\ irq_enabled
    /\ gate = "Busy"
    /\ cycle = 0

\* --- C7 ------------------------------------------------------------------
\* C7: once a host script has been run the orchestrator eventually reaches
\* Teardown, even if the Gate stays busy: the wait is entered with the finite
\* timeout of 1000 ms, ends with Timeout only when the Gate is still busy at
\* the end of the window, ends with success only when the Gate is idle, and
\* in both cases main goes on.
C7_WaitBounded ==
    /\ [](pc = "wait" => (WaitTimeout = 1000 /\ wait_elapsed < WaitTimeout + PollMs))
    /\ [][(pc = "wait" /\ wait_result' = "timeout")
            => (usbdbg_is_busy /\ wait_elapsed >= WaitTimeout)]_vars
    /\ [][(pc = "wait" /\ wait_result' = "ok") => ~usbdbg_is_busy]_vars
    /\ [][(pc = "wait" /\ ~usbdbg_is_busy /\ pc' # pc)
            => wait_result' \in {"ok", "fault"}]_vars
    /\ (Phase(pc) = "RunHostScript" /\ host_outcome # "none")
          ~> (pc = "soft_reset_exit")

C7_Witness ==
    /\ pc = "soft_reset_exit"
    /\ wait_result = "timeout"
    /\ usbdbg_is_busy
    /\ host_outcome = "completed"

\* --- C8 ------------------------------------------------------------------
\* Bring-up is over (main is at main.c:212).
BringUpDone == pc = "boot_py"

\* The subsystems main initialises after the sensor.
AfterSensor == {"vfs", "frozen_boot", "tusb"}

\* C8 (as claimed): in a cycle where the sensor init failed, no subsystem
\* declared after the sensor is initialised.
C8_FailureAborts ==
    "sensor" \in init_failed => Range(init_log) \cap AfterSensor = {}

\* C8 (amended): the inits run in the fixed declared order and an init
\* failure does not abort the sequence: when the sensor init fails, the
\* filesystem mount (or the frozen _boot.py) still runs in that cycle, and so
\* does tusb_init when the USB stack is not initialised yet; the subsystems
\* initialised before the sensor are left untouched (none is deinitialised).
C8_FailureContinues ==
    /\ Phase(pc) \in {"Init", "RunBootScript"} /\ pc # "soft_reset"
          => deinit_log = <<>>
    /\ pc \in {"sensor_init", "mount_fs", "tusb_init", "boot_py"}
          => SubSeq(init_log, 1, Len(InitCalls) + 2) = <<"gc", "runtime">> \o InitCalls
    /\ (BringUpDone /\ "sensor" \in init_failed) =>
          /\ IF build.vfs
             THEN "vfs" \in Range(init_log) \cup init_failed
             ELSE "frozen_boot" \in Range(init_log)
          /\ tusb_inited
          /\ cycle = 0 => "tusb" \in Range(init_log)

C8_Witness ==
    /\ BringUpDone
    /\ "sensor" \in init_failed
    /\ "vfs" \in Range(init_log)
    /\ "tusb" \in Range(init_log)

C10_MainThenTeardown ==
    "RunMainScript" \in visited =>
        /\ pc \in {"main_py", "soft_reset_exit", "soft_reset_end", "soft_reset"}
        /\ "Interactive" \notin visited
        /\ "RunHostScript" \notin visited

C10_Witness ==
    /\ "RunMainScript" \in visited
    /\ TeardownDone
    /\ main_runs = 1

\* --- C11 -----------------------------------------------------------------
\* C11: first_soft_reset is true throughout the first cycle after power-on and
\* false in every later cycle; it changes only at the end of Teardown, and only
\* to false; the power-on Boot phase is left once and never entered again.
C11_FirstBootOnce ==
    /\ [](first_soft_reset <=> cycle = 0)
    /\ [][first_soft_reset' # first_soft_reset
            => (pc = "soft_reset_end" /\ ~first_soft_reset')]_vars
    /\ [][pc' = "boot" => pc = "boot"]_vars
    /\ [](pc = "boot" => (cycle = 0 /\ visited = {"Boot"}))
    /\ []("Boot" \in visited => cycle = 0)

C11_Witness ==
    /\ cycle = MaxCycles
    /\ ~first_soft_reset
    /\ pc = "boot_py"
    /\ "Boot" \notin visited

\* --- C13 -----------------------------------------------------------------
\* C13: the host-script block is entered only with a script ready, and the
\* script stays ready until it is taken; taking it moves the Gate from
\* ScriptQueued to Busy, so that no script is ready when the run starts; a
\* script becomes ready only by a host message, and a run starts only from the
\* Busy state the take produced: no script runs twice without a new message.
C13_ScriptTakenOnce ==
    /\ [][(pc = "script_check" /\ pc' = "host_push") => usbdbg_script_ready]_vars
    /\ [](pc \in {"host_push", "host_irq_on", "host_take"} => usbdbg_script_ready)
    /\ [][(pc = "host_take" /\ pc' = "host_run")
            => (gate = "ScriptQueued" /\ gate' = "Busy")]_vars
    /\ [](pc = "host_run" => (gate = "Busy" /\ ~usbdbg_script_ready))
    /\ [][(gate # "ScriptQueued" /\ gate' = "ScriptQueued")
            => (gate = "Armed" /\ irq_enabled /\ pc' = pc)]_vars
    /\ [][(gate = "ScriptQueued" /\ gate' = "Busy") => pc = "host_take"]_vars
    /\ [][(pc = "host_run" /\ pc' # pc) => host_outcome = "none"]_vars

C13_Witness ==
    /\ pc = "host_irq_off"
    /\ host_outcome = "completed"
    /\ gate = "Busy"
    /\ ~first_soft_reset

\* --- C17 -----------------------------------------------------------------
ReplLoop == {"repl_check", "repl_push", "repl_irq_on", "repl_exec"}

MainStep ==
    Mainline \/ RunBootPy \/ RunMainPy \/ ReplExec \/ HostRun \/ WaitFault

\* C18: Init is entered only from Boot or from the end of Teardown, and
\* Teardown only from the paths of the cycle (main.py returned, the REPL loop
\* left with no script, the host script completed or faulted, the wait ended,
\* timed out or faulted); Teardown runs the whole deinit sequence exactly once
\* in a cycle and then goes to Init; main always has a next statement (it never
\* returns), and a Teardown that began is followed by Init.
C18_InitTeardownAlternate ==
    /\ [][(pc' = "soft_reset" /\ pc # pc') => pc \in {"boot", "soft_reset_end"}]_vars
    /\ [][(pc' = "soft_reset_exit" /\ pc # pc')
            => pc \in {"main_py", "script_check", "busy_check", "wait",
                       "wait_irq_off"}]_vars
    /\ [][(pc = "soft_reset_exit" /\ pc' # pc)
            => (pc' = "soft_reset_end" /\ deinit_log' = DeinitCalls)]_vars
    /\ [][(pc = "soft_reset_end" /\ pc' # pc) => pc' = "soft_reset"]_vars
    /\ [](pc \notin {"soft_reset_end", "soft_reset"} => deinit_log = <<>>)
    /\ [](pc = "soft_reset" => deinit_log = IF first_soft_reset THEN <<>> ELSE DeinitCalls)
    /\ [](ENABLED MainStep)
    /\ (Phase(pc) = "Teardown") ~> (pc = "soft_reset")

C18_Witness ==
    /\ pc = "soft_reset"
    /\ cycle = MaxCycles
    /\ deinit_log = DeinitCalls
    /\ wait_result = "timeout"

\* --- C19 -----------------------------------------------------------------
\* C19: the debug interrupt is disabled whenever Teardown begins, i.e. every
\* guarded region (REPL iteration, host-script run, wait) entered with the
\* interrupt enabled has disabled it on the path by which it was left.
C19_IrqOffAtTeardown ==
    (pc = "soft_reset_exit" /\ "Interactive" \in visited) => ~irq_enabled

\* --- C20 -----------------------------------------------------------------
\* C20: a cycle runs at most one host script: the run starts only from the
\* take and only when no host script has run in the cycle; once the
\* host-script block is entered main is never in an earlier phase of the same
\* cycle again; the block is left only to Teardown; and once the script has
\* returned or faulted, Teardown is reached (the wait in between is bounded).
C20_OneHostScriptPerCycle ==
    /\ [][(pc' = "host_run" /\ pc # pc')
            => (pc = "host_take" /\ host_outcome = "none")]_vars
    /\ [][(pc = "host_run" /\ pc' # pc)
            => (host_outcome = "none" /\ host_outcome' # "none")]_vars
    /\ []("RunHostScript" \in visited
            => (Phase(pc) \in {"RunHostScript", "Teardown"} \/ pc = "soft_reset"))
    /\ [][(Phase(pc) = "RunHostScript" /\ Phase(pc') # "RunHostScript")
            => pc' = "soft_reset_exit"]_vars
    /\ (Phase(pc) = "RunHostScript" /\ host_outcome # "none") ~> (pc = "soft_reset_exit")

C20_Witness ==
    /\ pc = "soft_reset_exit"
    /\ host_outcome = "early_exit"
    /\ wait_result = "ok"
    /\ "RunHostScript" \in visited

\* --- C12 -----------------------------------------------------------------
\* C12: once a fatal stop (__fatal_error, nlr_jump_fail, a failed assertion)
\* is entered, main stays there: no statement of the lifecycle executes again;
\* every other reachable state has a next statement of main, and from it Init
\* is reached again unless a fatal stop is entered first.
C12_FatalTerminal ==
    /\ [][Phase(pc) = "Fatal" => pc' = pc]_vars
    /\ []("Fatal" \in visited => (Phase(pc) = "Fatal" /\ ~ENABLED MainStep))
    /\ [](Phase(pc) # "Fatal" => ENABLED MainStep)
    /\ (Phase(pc) # "Fatal") ~> (pc = "soft_reset" \/ Phase(pc) = "Fatal")

C12_Witness ==
    /\ pc = "fatal"
    /\ led
    /\ cycle = MaxCycles
    /\ "Teardown" \in visited

\* --- C14 -----------------------------------------------------------------
\* The step as the specification writes it: shift left within 8 bits, put the
\* sampled bit in the low position, XOR with 0xD5 if bit 7 was set.
RefStep(old, bit) ==
    BitXor(BitOr((old * 2) % 256, bit), IF old >= 128 THEN 213 ELSE 0)

\* The reference trace: RefStep applied from acc over the bits bs, in order.
RECURSIVE RefTrace(_, _)
RefTrace(acc, bs) ==
    IF bs = <<>> THEN acc
    ELSE RefStep(RefTrace(acc, SubSeq(bs, 1, Len(bs) - 1)), bs[Len(bs)])

\* C14: every iteration of rosc_random_u8 (of a call with any cycle count,
\* the 32 of rosc_random_u32 included) takes the accumulator from old to
\* RefStep(old, sampled bit); the accumulator stays in 0..255; the call
\* returns after exactly n = cycles samples, and the value it returns is the
\* reference trace of the sampled bits from the accumulator value at entry
\* (the whole trace is recomputed for the calls of up to MaxSamples samples).
C14_StepIsReference ==
    /\ [][(rpc = "u8_loop" /\ rpc' = "u8_loop" /\ bits' # bits)
            => (Len(bits') = Len(bits) + 1
                /\ r' = RefStep(r, bits'[Len(bits')]))]_vars
    /\ [](r \in 0..255)
    /\ []((rpc = "u8_loop" /\ Len(bits) <= MaxSamples)
            => r = RefTrace(r_entry, bits))
    /\ [][(rpc = "u8_loop" /\ rpc' # "u8_loop")
            => /\ Len(bits) = cycles
               /\ ret' = r
               /\ ret' \in 0..255
               /\ cycles <= MaxSamples => ret' = RefTrace(r_entry, bits)]_vars

C14_Witness ==
    /\ osc = "free"
    /\ rpc = "idle"
    /\ called
    /\ r_entry >= 128
    /\ Len(prev_bits) = MaxSamples
    /\ ret # rosc_step_NoFeedback(rosc_step_NoFeedback(r_entry, prev_bits[1]), prev_bits[2])
    /\ ret = RefTrace(r_entry, prev_bits)

\* --- C15 -----------------------------------------------------------------
ZeroWord == <<0, 0, 0, 0>>

\* C15: rosc_random_u32 calls rosc_random_u8 with 32 cycles, four times; no
\* set bit is shifted out of the 32 bits; the word returned is the four bytes
\* in call order, first byte most significant, each byte in 0..255; against
\* the oscillator that always delivers 0, every word returned since power-on
\* (the first and the one after it) is 0x00000000.
C15_WordIsFourBytes ==
    /\ [][(rpc = "u32_loop" /\ rpc' = "u8_loop")
            => (cycles' = 32 /\ Len(bytes) < 4 /\ Len(bytes) = k)]_vars
    /\ [][(rpc = "u8_loop" /\ rpc' = "u32_loop")
            => (value[1] = 0 /\ bytes' = Append(bytes, ret'))]_vars
    /\ [][(rpc = "u32_loop" /\ rpc' = "idle")
            => /\ Len(bytes) = 4
               /\ value = <<bytes[1], bytes[2], bytes[3], bytes[4]>>
               /\ \A i \in 1..4 : value[i] \in 0..255]_vars
    /\ []((osc = "zero" /\ rpc = "idle" /\ nwords >= 1) => value = ZeroWord)

C15_Witness ==
    /\ osc = "zero"
    /\ rpc = "idle"
    /\ nwords = MaxWords
    /\ value = ZeroWord
    /\ Len(bytes) = 4

\* --- C16 -----------------------------------------------------------------
\* C16 (as stated): a call that samples the same bits as the call before it
\* returns the same byte.
C16_SameBitsSameByte ==
    [][(rpc = "u8_loop" /\ rpc' # "u8_loop" /\ called /\ prev_bits = bits)
         => ret' = ret]_vars

\* C16 (amended): the accumulator persists between calls: a call starts from
\* the byte the previous call returned (0 for the first call after power-on),
\* entering the call does not change it, and the byte returned is the
\* reference trace of the sampled bits from that starting value (recomputed
\* for the calls of up to MaxSamples samples).
C16_AccumulatorPersists ==
    /\ [][(rpc # "u8_loop" /\ rpc' = "u8_loop")
            => (r' = r /\ r_entry' = r /\ r = IF called THEN ret ELSE 0)]_vars
    /\ [][(rpc = "u8_loop" /\ rpc' # "u8_loop" /\ cycles <= MaxSamples)
            => ret' = RefTrace(r_entry, bits)]_vars
    /\ []((called /\ rpc # "u8_loop") => r = ret)

C16_Witness ==
    /\ osc = "free"
    /\ rpc = "idle"
    /\ called
    /\ prev_bits = <<1>>
    /\ r_entry = 1
    /\ ret = 3

\* --- C21 -----------------------------------------------------------------
\* C21: no recovery point pushed by main is still registered when Teardown
\* begins, i.e. every nlr_push of main that returned 0 has been matched by an
\* nlr_pop or by the jump of a fault on the path by which its region was left.
C21_NoRecoveryPointAtTeardown ==
    pc = "soft_reset_exit" => nlr_depth = 0

\* --- C22 -----------------------------------------------------------------
\* C22: tusb_init and the installation of the debugger IRQ handler run only
\* at main.c:202-208 of the first cycle after power-on, at most once; from
\* then on tusb_inited() stays true: no Teardown deinitialises the USB stack,
\* and every later cycle skips the block (init_log is the record of a cycle
\* and is kept until the next cycle starts at soft_reset).
C22_TusbInitOnce ==
    /\ [][tusb_inited' # tusb_inited
            => (pc = "tusb_init" /\ first_soft_reset /\ cycle = 0 /\ tusb_inited')]_vars
    /\ [][init_log' # init_log /\ "tusb" \in Range(init_log')
            => (cycle = 0 /\ (pc = "tusb_init" => ~tusb_inited))]_vars
    /\ []((pc # "soft_reset" /\ "tusb" \in Range(init_log)) => cycle = 0)
    /\ [](Cardinality({i \in DOMAIN init_log : init_log[i] = "tusb"}) <= 1)
    /\ []("tusb" \notin Range(deinit_log))
    /\ []((cycle > 0 \/ Phase(pc) \notin {"Boot", "Init"}) => tusb_inited)

C22_Witness ==
    /\ pc = "boot_py"
    /\ cycle = MaxCycles
    /\ tusb_inited
    /\ "tusb" \notin Range(init_log)
    /\ "gc" \in Range(init_log)

=============================================================================
